---------------------------- MODULE Spec2Model ----------------------------
(***************************************************************************)
(* Model of the gpio_button platform driver (gpio_button.c): the debounce  *)
(* controller (interrupt handler + one-shot timer), the event waitable     *)
(* (button_event_flag + button_wait), the character device read()/poll(),  *)
(* the led_status sysfs attribute (show/store), and probe()/remove() with  *)
(* the probe error-unwinding labels.                                       *)
(*                                                                         *)
(* A handler is split into steps wherever another context can run between *)
(* two of its statements.  Time is kept as the time left on the armed      *)
(* timer.                                                                  *)
(***************************************************************************)
EXTENDS Integers, FiniteSets, Sequences, TLC

(***************************************************************************)
(* Program constants.                                                      *)
(***************************************************************************)
\* mod_timer(&debounce_timer, jiffies + msecs_to_jiffies(50))
DEBOUNCE_MS == 50
\* return -ERESTARTSYS (include/linux/errno.h)
ERESTARTSYS == 512
\* return -EFAULT (include/uapi/asm-generic/errno-base.h)
EFAULT == 14
\* return ... ? POLLIN : 0
POLLIN == 1
\* event_char = '1'
EVENT_CHAR == "1"
\* return sizeof(event_char)
EVENT_LEN == 1
\* return -EINVAL (include/uapi/asm-generic/errno-base.h)
EINVAL == 22
\* char local_buf[16]
LOCAL_BUF_SIZE == 16

(***************************************************************************)
(* Bounds of the model.                                                    *)
(***************************************************************************)
\* how far one step of time moves the armed timer towards its expiry
TickMs == 25
\* history counters saturate here
MaxCount == 2
\* processes that may call read() on /dev/gpio_button
NumReaders == 2

\* processes that may write the led_status attribute at the same time
NumWriters == 2
\* longest text written to led_status, apart from LongInputs
MaxInputLen == 3

AllReaders == 1..NumReaders
AllWriters == 1..NumWriters
\* the writer of the single-process runs
SingleWriter == {1}
\* the one consumer the event device is specified for
SingleReader == {1}

\* GPIOBTN_TIMER_DELETE maps to a helper by kernel version: timer_shutdown_sync
\* also forbids re-arming until the next timer_setup; timer_delete_sync and
\* del_timer_sync (its older name) only cancel and wait.
TimerDeleteKinds == {"timer_shutdown_sync", "timer_delete_sync"}

\* what probe acquires
Resources ==
    {"button_gpio", "led_gpio", "irq", "chrdev_region", "cdev", "class",
     "dev_chardev", "dev_sysfs", "attr_led_status"}

VARIABLES
    \* --- driver statics ---------------------------------------------------
    debounce_active,    \* atomic_t debounce_active (Debounce Guard)
    button_event_flag,  \* atomic_t button_event_flag (Pending Event Flag)
    timer_pending,      \* debounce_timer is armed
    timer_left,         \* ms until the armed timer may expire
    timer_shutdown,     \* timer_shutdown_sync() ran since the last timer_setup()
    held,               \* resources currently held by the driver
    \* --- execution contexts -------------------------------------------------
    cb_pc,              \* position of debounce_timer_callback
    button_state,       \* its local: the sampled level (2 = not sampled)
    isr_pc,             \* position of gpio_button_isr
    pr_pc,              \* position of probe()/remove() (platform core serialises them)
    pr_ret,             \* what the last probe() returned: "none", "ok", "err"
    rd_pc,              \* position of each reader inside gpio_button_read
    rd_ret,             \* last return value of read() per reader (0 = none yet)
    rd_buf,             \* what the last read() copied to the caller
    poll_ret,           \* last return value of gpio_button_poll
    \* --- hardware / build ---------------------------------------------------
    button_level,       \* electrical level of the button line (0 = pressed)
    irq_pending,        \* an edge is latched and not yet handled
    irq_enabled,        \* the line is not masked by disable_irq
    kver,               \* which helper GPIOBTN_TIMER_DELETE is
    \* --- LED attribute ----------------------------------------------------
    led_status,         \* static volatile int led_status (LED Logical State)
    led_line,           \* level driven on the LED line
    st_pc,              \* position of each writer inside led_status_store
    st_in,              \* buf[0..count-1] of the call in progress
    st_val,             \* its local val, once parsed
    st_arg,             \* led_status as read back for gpiod_set_value
    st_ret,             \* last return value of led_status_store per writer
    show_buf,           \* what the last led_status_show wrote to buf
    \* --- history (observers, never read by the driver) ----------------------
    observe,            \* which group of observers records in this behaviour
    win_bounced,        \* a further interrupt arrived since the window opened
    win_sets,           \* false->true transitions of the flag since it opened
    win_reads,          \* read() calls that got past the wait since it opened
    win_clean,          \* the flag was false when the window opened
    win_sample,         \* level sampled by the latest expiry (2 = none yet)
    win_signalled,      \* the window's expiry signalled an event
    undelivered,        \* pressed expiries minus markers returned (-1: a marker
                        \* was returned that no expiry accounts for)
    drained,            \* read() calls past the wait since the last pressed expiry
    was_intr,           \* an earlier read() of this reader was interrupted
    woken_by_press,     \* this read() was parked when a pressed expiry woke it
    late_sample,        \* the callback sampled the button line after its release
    rm_raced,           \* teardown began with the timer armed or its callback running
    acq_seq,            \* what this probe() has set up so far, in order
    rel_seq,            \* what this unwinding or remove() has torn down, in order
    isr_ran,            \* the handler ran since this probe() began
    \* --- the button application (src/apps/button/button.c) -----------------
    app_pc,             \* position of main()
    keep_running,       \* static volatile sig_atomic_t keep_running
    sig_pending,        \* SIGINT/SIGTERM was sent and its handler has not run yet
    current_led_state,  \* main's local current_led_state
    led_fd,             \* the LED attribute file is open
    app_wrote           \* last value main() wrote to the LED attribute (-1: none)

drv   == <<debounce_active, button_event_flag, timer_pending, timer_left,
           timer_shutdown, held>>
ctx   == <<cb_pc, button_state, isr_pc, pr_pc, pr_ret>>
rdr   == <<rd_pc, rd_ret, rd_buf, was_intr, woken_by_press>>
pol   == <<poll_ret>>
appv  == <<app_pc, keep_running, sig_pending, current_led_state, led_fd,
           app_wrote>>
\* what no step of the driver changes
fixed == <<kver, observe, appv>>
stv   == <<st_pc, st_in, st_val, st_arg, st_ret>>
ledv  == <<led_status, led_line, stv, show_buf>>
\* what no step of the debounce path changes
rest  == <<fixed, ledv>>
hw    == <<button_level, irq_pending, irq_enabled, rest>>
win   == <<win_bounced, win_sets, win_reads, win_clean, win_sample,
           win_signalled>>
ord   == <<acq_seq, rel_seq>>
hist  == <<undelivered, drained, late_sample, rm_raced, ord, isr_ran>>
vars  == <<drv, ctx, rdr, pol, hw, win, hist>>

\* The observers are grouped; one group records per behaviour, the others
\* keep their initial values.  The driver's own state is the same in all.
ObserverGroups == {"window", "delivery", "teardown"}
\* no group records
NoGroup == "none"
\* the group recorded when liveness is checked
WakeupGroup == "wakeup"

\* the new value of an observer of group g
Rec(g, new, old) == IF observe = g THEN new ELSE old

Sat(n) == IF n < MaxCount THEN n + 1 ELSE MaxCount
Max0(n) == IF n < 0 THEN 0 ELSE n

(***************************************************************************)
(* State after module load, before the first probe.                        *)
(***************************************************************************)
InitDriver ==
    /\ debounce_active = 0
    /\ button_event_flag = 0
    /\ timer_pending = FALSE
    /\ timer_left = 0
    /\ timer_shutdown = FALSE
    /\ held = {}
    /\ cb_pc = "idle"
    /\ button_state = 2
    /\ isr_pc = "idle"
    /\ pr_pc = "unbound"
    /\ pr_ret = "none"
    /\ rd_pc = [r \in AllReaders |-> "idle"]
    /\ rd_ret = [r \in AllReaders |-> 0]
    /\ rd_buf = [r \in AllReaders |-> ""]
    /\ was_intr = [r \in AllReaders |-> FALSE]
    /\ woken_by_press = [r \in AllReaders |-> FALSE]
    /\ poll_ret = 0
    /\ button_level \in {0, 1}
    /\ irq_pending = FALSE
    /\ irq_enabled = FALSE
    /\ kver \in TimerDeleteKinds
    /\ win_bounced = FALSE
    /\ win_sets = 0
    /\ win_reads = 0
    /\ win_clean = FALSE
    /\ win_sample = 2
    /\ win_signalled = FALSE
    /\ undelivered = 0
    /\ drained = 0
    /\ late_sample = FALSE
    /\ rm_raced = FALSE
    /\ acq_seq = <<>>
    /\ rel_seq = <<>>
    /\ isr_ran = FALSE
    /\ led_status = 0
    /\ led_line = 0
    /\ st_pc = [w \in AllWriters |-> "idle"]
    /\ st_in = [w \in AllWriters |-> <<>>]
    /\ st_val = [w \in AllWriters |-> 0]
    /\ st_arg = [w \in AllWriters |-> 0]
    /\ st_ret = [w \in AllWriters |-> 0]
    /\ show_buf = <<>>
    /\ app_pc = "start"
    /\ keep_running = 1
    /\ sig_pending = FALSE
    /\ current_led_state = 0
    /\ led_fd = FALSE
    /\ app_wrote = -1

Init ==
    /\ InitDriver
    /\ observe \in ObserverGroups

(***************************************************************************)
(* Hardware: the button line changes level; both edges raise the interrupt *)
(* (IRQF_TRIGGER_RISING | IRQF_TRIGGER_FALLING) once it is requested.      *)
(***************************************************************************)
ButtonEdge ==
    /\ button_level' = 1 - button_level
    /\ irq_pending' = IF "irq" \in held THEN TRUE ELSE irq_pending
    /\ UNCHANGED <<irq_enabled, rest, drv, ctx, rdr, pol, win, hist>>

\* Time passes while the timer is armed.
Tick ==
    /\ timer_pending
    /\ timer_left > 0
    /\ timer_left' = Max0(timer_left - TickMs)
    /\ UNCHANGED <<debounce_active, button_event_flag, timer_pending,
                   timer_shutdown, held, ctx, rdr, pol, hw, win, hist>>

(***************************************************************************)
(* gpio_button_isr                                                         *)
(***************************************************************************)
\* variant: the handler never looks at the guard
IsrGated_Never == FALSE

\* variant: the handler also backs off while an event is still pending
IsrGated_OrPending == debounce_active # 0 \/ button_event_flag # 0

\* if (atomic_read(&debounce_active)) return IRQ_HANDLED;
IsrGated == debounce_active # 0

\* mod_timer(): arms (or re-arms) the timer 50 ms from now; a timer that was
\* shut down stays dead until the next timer_setup().
ModTimerPending == IF timer_shutdown THEN timer_pending ELSE TRUE
ModTimerLeft == IF timer_shutdown THEN timer_left ELSE DEBOUNCE_MS

IsrEnter ==
    /\ "irq" \in held
    /\ irq_enabled
    /\ irq_pending
    /\ isr_pc = "idle"
    /\ irq_pending' = FALSE
    /\ IF IsrGated
         THEN /\ isr_pc' = "idle"
              /\ win_bounced' = Rec("window", TRUE, win_bounced)
         ELSE /\ isr_pc' = "set_active"
              /\ win_bounced' = win_bounced
    /\ isr_ran' = Rec("teardown", TRUE, isr_ran)
    /\ UNCHANGED <<drv, cb_pc, button_state, pr_pc, pr_ret, rdr, pol,
                   button_level, irq_enabled, rest, win_sets, win_reads,
                   win_clean, win_sample, win_signalled, undelivered, drained,
                   late_sample, rm_raced, ord>>

\* atomic_set(&debounce_active, 1): a debounce window opens
IsrSetActive ==
    /\ isr_pc = "set_active"
    /\ debounce_active' = 1
    /\ isr_pc' = "mod_timer"
    /\ IF debounce_active = 0
         THEN \* the guard goes false -> true: a window opens
              /\ win_bounced' = Rec("window", FALSE, win_bounced)
              /\ win_sets' = Rec("window", 0, win_sets)
              /\ win_reads' = Rec("window", 0, win_reads)
              /\ win_clean' = Rec("window", button_event_flag = 0, win_clean)
              /\ win_signalled' = Rec("window", FALSE, win_signalled)
         ELSE /\ win_bounced' = Rec("window", TRUE, win_bounced)
              /\ UNCHANGED <<win_sets, win_reads, win_clean, win_signalled>>
    /\ UNCHANGED <<win_sample, button_event_flag, timer_pending, timer_left,
                   timer_shutdown, held, cb_pc, button_state, pr_pc, pr_ret,
                   rdr, pol, hw, hist>>

IsrModTimer ==
    /\ isr_pc = "mod_timer"
    /\ timer_pending' = ModTimerPending
    /\ timer_left' = ModTimerLeft
    /\ isr_pc' = "idle"
    /\ UNCHANGED <<debounce_active, button_event_flag, timer_shutdown, held,
                   cb_pc, button_state, pr_pc, pr_ret, rdr, pol, hw, win, hist>>

(***************************************************************************)
(* debounce_timer_callback                                                 *)
(***************************************************************************)
\* variant: the polarity is taken the other way round
IsPressed_ActiveHigh(level) == level = 1

\* if (button_state == 0): active-low, pressed reads 0
IsPressed(level) == level = 0

\* variant: the flag is set but nobody is woken
WakeUp_Missing(pcs) == pcs

\* wake_up(&button_wait): every parked reader re-evaluates the condition
WakeUp(pcs) == [r \in AllReaders |-> IF pcs[r] = "sleep" THEN "recheck" ELSE pcs[r]]

\* gpiod_get_value(button_gpio); reading a released descriptor gives anything
GpiodGetValue == IF "button_gpio" \in held THEN {button_level} ELSE {0, 1}

\* the timer core dequeues the expired timer and calls its function
TimerExpire ==
    /\ timer_pending
    /\ timer_left = 0
    /\ cb_pc = "idle"
    /\ timer_pending' = FALSE
    /\ cb_pc' = "sample"
    /\ UNCHANGED <<debounce_active, button_event_flag, timer_left,
                   timer_shutdown, held, button_state, isr_pc, pr_pc, pr_ret,
                   rdr, pol, hw, win, hist>>

CbSample ==
    /\ cb_pc = "sample"
    /\ \E v \in GpiodGetValue :
          /\ button_state' = v
          /\ win_sample' = Rec("window", v, win_sample)
    /\ late_sample' = Rec("teardown", late_sample \/ "button_gpio" \notin held,
                           late_sample)
    /\ cb_pc' = "signal"
    /\ UNCHANGED <<drv, isr_pc, pr_pc, pr_ret, rdr, pol, hw, win_bounced,
                   win_sets, win_reads, win_clean, win_signalled, undelivered,
                   drained, rm_raced, ord, isr_ran>>

\* if (button_state == 0) atomic_set(&button_event_flag, 1);
CbSignal ==
    /\ cb_pc = "signal"
    /\ IF IsPressed(button_state)
         THEN /\ button_event_flag' = 1
              /\ cb_pc' = "wake"
              /\ win_sets' = Rec("window", IF button_event_flag = 0 THEN Sat(win_sets)
                                                                  ELSE win_sets,
                                win_sets)
              /\ win_signalled' = Rec("window", TRUE, win_signalled)
              /\ undelivered' = Rec("delivery", IF undelivered < 0 THEN undelivered
                                                                   ELSE Sat(undelivered),
                                   undelivered)
              /\ drained' = Rec("delivery", 0, drained)
         ELSE /\ cb_pc' = "clear"
              /\ UNCHANGED <<button_event_flag, win_sets, win_signalled,
                             undelivered, drained>>
    /\ UNCHANGED <<debounce_active, timer_pending, timer_left, timer_shutdown,
                   held, button_state, isr_pc, pr_pc, pr_ret, rdr, pol, hw,
                   win_bounced, win_reads, win_clean, win_sample, late_sample,
                   rm_raced, ord, isr_ran>>

\* wake_up(&button_wait);
CbWake ==
    /\ cb_pc = "wake"
    /\ rd_pc' = WakeUp(rd_pc)
    /\ woken_by_press' =
          Rec(WakeupGroup,
              [r \in AllReaders |-> woken_by_press[r] \/ rd_pc[r] = "sleep"],
              woken_by_press)
    /\ cb_pc' = "clear"
    /\ UNCHANGED <<drv, button_state, isr_pc, pr_pc, pr_ret, rd_ret, rd_buf,
                   was_intr, pol, hw, win, hist>>

\* atomic_set(&debounce_active, 0); return
CbClear ==
    /\ cb_pc = "clear"
    /\ debounce_active' = 0
    /\ cb_pc' = "idle"
    /\ button_state' = 2
    /\ UNCHANGED <<button_event_flag, timer_pending, timer_left,
                   timer_shutdown, held, isr_pc, pr_pc, pr_ret, rdr, pol, hw,
                   win, hist>>

(***************************************************************************)
(* gpio_button_read                                                        *)
(***************************************************************************)
\* the file can be opened and read once cdev_add() made the device live
ReadCall(r) ==
    /\ "cdev" \in held
    /\ rd_pc[r] = "idle"
    /\ rd_pc' = [rd_pc EXCEPT ![r] = "check"]
    /\ was_intr' = Rec("delivery",
                       [was_intr EXCEPT ![r] = @ \/ rd_ret[r] = -ERESTARTSYS],
                       was_intr)
    /\ woken_by_press' = Rec(WakeupGroup, [woken_by_press EXCEPT ![r] = FALSE],
                             woken_by_press)
    /\ rd_ret' = [rd_ret EXCEPT ![r] = 0]
    /\ rd_buf' = [rd_buf EXCEPT ![r] = ""]
    /\ UNCHANGED <<drv, ctx, pol, hw, win, hist>>

\* wait_event_interruptible(button_wait, atomic_read(&button_event_flag)):
\* the condition is evaluated with the task already queued, so a wake_up
\* after the evaluation is not lost; a false condition parks the task.
ReadCheck(r) ==
    /\ rd_pc[r] \in {"check", "recheck"}
    /\ IF button_event_flag # 0
         THEN /\ rd_pc' = [rd_pc EXCEPT ![r] = "clear_flag"]
              /\ win_reads' = Rec("window", Sat(win_reads), win_reads)
              /\ drained' = Rec("delivery", Sat(drained), drained)
         ELSE /\ rd_pc' = [rd_pc EXCEPT ![r] = "sleep"]
              /\ UNCHANGED <<win_reads, drained>>
    /\ UNCHANGED <<drv, ctx, rd_ret, rd_buf, was_intr, woken_by_press, pol, hw,
                   win_bounced,
                   win_sets, win_clean, win_sample, win_signalled, undelivered,
                   late_sample, rm_raced, ord, isr_ran>>

\* variant: the interrupted path gives up whatever the flag is and resets it
ReadInterrupted_Consumes(r) ==
    /\ rd_pc[r] \in {"check", "recheck", "sleep"}
    /\ button_event_flag' = 0
    /\ rd_pc' = [rd_pc EXCEPT ![r] = "idle"]
    /\ rd_ret' = [rd_ret EXCEPT ![r] = -ERESTARTSYS]
    /\ UNCHANGED <<debounce_active, timer_pending, timer_left, timer_shutdown,
                   held, ctx, rd_buf, was_intr, woken_by_press, pol, hw, win,
                   hist>>

\* a signal is pending and the condition is false: if (ret) return -ERESTARTSYS;
ReadInterrupted(r) ==
    /\ rd_pc[r] \in {"check", "recheck", "sleep"}
    /\ button_event_flag = 0
    /\ rd_pc' = [rd_pc EXCEPT ![r] = "idle"]
    /\ rd_ret' = [rd_ret EXCEPT ![r] = -ERESTARTSYS]
    /\ UNCHANGED <<drv, ctx, rd_buf, was_intr, woken_by_press, pol, hw, win, hist>>

\* variant: the flag is left set
ReadClear_Missing(r) ==
    /\ rd_pc[r] = "clear_flag"
    /\ rd_pc' = [rd_pc EXCEPT ![r] = "copy"]
    /\ UNCHANGED <<drv, ctx, rd_ret, rd_buf, was_intr, woken_by_press, pol, hw,
                   win, hist>>

\* variant: the read also lowers the guard
ReadClear_LowersGuard(r) ==
    /\ rd_pc[r] = "clear_flag"
    /\ button_event_flag' = 0
    /\ debounce_active' = 0
    /\ rd_pc' = [rd_pc EXCEPT ![r] = "copy"]
    /\ UNCHANGED <<timer_pending, timer_left, timer_shutdown,
                   held, ctx, rd_ret, rd_buf, was_intr, woken_by_press, pol, hw,
                   win, hist>>

\* atomic_set(&button_event_flag, 0);
ReadClear(r) ==
    /\ rd_pc[r] = "clear_flag"
    /\ button_event_flag' = 0
    /\ rd_pc' = [rd_pc EXCEPT ![r] = "copy"]
    /\ UNCHANGED <<debounce_active, timer_pending, timer_left, timer_shutdown,
                   held, ctx, rd_ret, rd_buf, was_intr, woken_by_press, pol, hw,
                   win, hist>>

\* if (copy_to_user(...)) return -EFAULT; return sizeof(event_char);
ReadCopy(r) ==
    /\ rd_pc[r] = "copy"
    /\ rd_pc' = [rd_pc EXCEPT ![r] = "idle"]
    /\ \E fault \in BOOLEAN :
          IF fault
            THEN /\ rd_ret' = [rd_ret EXCEPT ![r] = -EFAULT]
                 /\ UNCHANGED <<rd_buf, undelivered>>
            ELSE /\ rd_ret' = [rd_ret EXCEPT ![r] = EVENT_LEN]
                 /\ rd_buf' = [rd_buf EXCEPT ![r] = EVENT_CHAR]
                 /\ undelivered' = Rec("delivery", IF undelivered < 0 THEN undelivered
                                                                     ELSE undelivered - 1,
                                    undelivered)
    /\ UNCHANGED <<drv, ctx, was_intr, woken_by_press, pol, hw, win, drained,
                   late_sample, rm_raced, ord, isr_ran>>

(***************************************************************************)
(* gpio_button_poll                                                        *)
(***************************************************************************)
\* return atomic_read(&button_event_flag) ? POLLIN : 0;
PollMask == IF button_event_flag # 0 THEN POLLIN ELSE 0

\* variant: poll() consumes the event it reports
Poll_Consumes ==
    /\ "cdev" \in held
    /\ poll_ret' = PollMask
    /\ button_event_flag' = 0
    /\ UNCHANGED <<debounce_active, timer_pending, timer_left, timer_shutdown,
                   held, ctx, rdr, hw, win, hist>>

Poll ==
    /\ "cdev" \in held
    /\ poll_ret' = PollMask
    /\ UNCHANGED <<drv, ctx, rdr, hw, win, hist>>

(***************************************************************************)
(* sysfs attribute led_status.  Text is a sequence of one-byte strings.    *)
(***************************************************************************)
\* the byte '\0'
NUL == "NUL"

\* bytes a writer may put into its buffer
InputChars == {"0", "1", "2", "+", "\n", "x", NUL}

DigitChars == <<"0", "1", "2", "3", "4", "5", "6", "7", "8", "9">>

IsDigit(c) == \E k \in 1..Len(DigitChars) : DigitChars[k] = c

DigitVal(c) == (CHOOSE k \in 1..Len(DigitChars) : DigitChars[k] = c) - 1

\* buffers of exactly sizeof(local_buf) - 1 and sizeof(local_buf) bytes
LongInputs ==
    { [i \in 1..n |-> IF i = n THEN "1" ELSE "0"] :
          n \in {LOCAL_BUF_SIZE - 1, LOCAL_BUF_SIZE} }

\* what is written to the attribute when one process writes
StoreInputs ==
    UNION { [1..n -> InputChars] : n \in 0..MaxInputLen } \cup LongInputs

\* what is written when several processes write at once
ConcurrentInputs == { <<"0">>, <<"1", "\n">>, <<"2">> }

\* if (count && local_buf[count - 1] == '\n') local_buf[count - 1] = '\0';
StripNewline(s) ==
    IF Len(s) > 0 /\ s[Len(s)] = "\n" THEN SubSeq(s, 1, Len(s) - 1) ELSE s

\* local_buf as a C string: the bytes before the first '\0'
RECURSIVE CStr(_)
CStr(s) ==
    IF s = <<>> \/ Head(s) = NUL THEN <<>> ELSE <<Head(s)>> \o CStr(Tail(s))

\* _parse_integer: how many leading digits, and their value in base 10
RECURSIVE LeadingDigits(_)
LeadingDigits(s) ==
    IF s = <<>> \/ ~IsDigit(Head(s)) THEN 0 ELSE 1 + LeadingDigits(Tail(s))

RECURSIVE DigitsValue(_, _)
DigitsValue(s, n) ==
    IF n = 0 THEN 0 ELSE 10 * DigitsValue(s, n - 1) + DigitVal(s[n])

\* kstrtoul(s, 10, &val): an optional '+', at least one digit, an optional
\* final newline, nothing else.  (Under 16 bytes cannot overflow 64 bits.)
Kstrtoul(s) ==
    LET t == IF s # <<>> /\ Head(s) = "+" THEN Tail(s) ELSE s
        n == LeadingDigits(t)
        after == SubSeq(t, n + 1, Len(t))
        tail == IF after # <<>> /\ Head(after) = "\n" THEN Tail(after) ELSE after
    IN  IF n = 0 \/ tail # <<>>
          THEN [err |-> -EINVAL, val |-> 0]
          ELSE [err |-> 0, val |-> DigitsValue(t, n)]

\* variant: the line is driven with the opposite level
GpiodSetValue_Inverted(v) == IF v # 0 THEN 0 ELSE 1

\* gpiod_set_value(led_gpio, v): any nonzero value is "active"
GpiodSetValue(v) == IF v # 0 THEN 1 ELSE 0

\* sprintf "%d"
RECURSIVE SprintfD(_)
SprintfD(n) ==
    IF n < 0 THEN <<"-">> \o SprintfD(-n)
    ELSE IF n < 10 THEN <<DigitChars[n + 1]>>
    ELSE SprintfD(n \div 10) \o <<DigitChars[(n % 10) + 1]>>

\* what no step of show/store touches
LedFrame ==
    UNCHANGED <<drv, ctx, rdr, pol, button_level, irq_pending, irq_enabled,
                fixed, win, hist>>

\* write(2) on the attribute: led_status_store(dev, attr, buf, count)
StoreCall(w, inputs) ==
    /\ "attr_led_status" \in held
    /\ st_pc[w] = "idle"
    /\ \E i \in inputs : st_in' = [st_in EXCEPT ![w] = i]
    /\ st_pc' = [st_pc EXCEPT ![w] = "check"]
    /\ st_ret' = [st_ret EXCEPT ![w] = 0]
    /\ st_val' = [st_val EXCEPT ![w] = 0]
    /\ UNCHANGED <<led_status, led_line, st_arg, show_buf>>
    /\ LedFrame

\* the length check, the copy, the newline strip, kstrtoul and the range
\* check: all on locals
StoreCheck(w) ==
    /\ st_pc[w] = "check"
    /\ LET count == Len(st_in[w])
           parsed == Kstrtoul(CStr(StripNewline(st_in[w])))
           ret == IF count >= LOCAL_BUF_SIZE THEN -EINVAL
                  ELSE IF parsed.err # 0 THEN parsed.err
                  ELSE IF parsed.val # 0 /\ parsed.val # 1 THEN -EINVAL
                  ELSE 0
       IN  IF ret # 0
             THEN /\ st_ret' = [st_ret EXCEPT ![w] = ret]
                  /\ st_pc' = [st_pc EXCEPT ![w] = "idle"]
                  /\ st_in' = [st_in EXCEPT ![w] = <<>>]
                  /\ st_val' = st_val
             ELSE /\ st_val' = [st_val EXCEPT ![w] = parsed.val]
                  /\ st_pc' = [st_pc EXCEPT ![w] = "assign"]
                  /\ UNCHANGED <<st_ret, st_in>>
    /\ UNCHANGED <<led_status, led_line, st_arg, show_buf>>
    /\ LedFrame

\* variant: the store also clears the pending button event
StoreAssign_ClearsEvent(w) ==
    /\ st_pc[w] = "assign"
    /\ led_status' = st_val[w]
    /\ button_event_flag' = 0
    /\ st_pc' = [st_pc EXCEPT ![w] = "load"]
    /\ UNCHANGED <<led_line, st_in, st_val, st_arg, st_ret, show_buf>>
    /\ UNCHANGED <<debounce_active, timer_pending, timer_left, timer_shutdown,
                   held, ctx, rdr, pol, button_level, irq_pending,
                   irq_enabled, fixed, win, hist>>

\* led_status = val;
StoreAssign(w) ==
    /\ st_pc[w] = "assign"
    /\ led_status' = st_val[w]
    /\ st_pc' = [st_pc EXCEPT ![w] = "load"]
    /\ UNCHANGED <<led_line, st_in, st_val, st_arg, st_ret, show_buf>>
    /\ LedFrame

\* led_status is volatile: it is read back as the argument of gpiod_set_value
StoreLoad(w) ==
    /\ st_pc[w] = "load"
    /\ st_arg' = [st_arg EXCEPT ![w] = led_status]
    /\ st_pc' = [st_pc EXCEPT ![w] = "drive"]
    /\ UNCHANGED <<led_status, led_line, st_in, st_val, st_ret, show_buf>>
    /\ LedFrame

\* gpiod_set_value(led_gpio, led_status); return count;
StoreDrive(w) ==
    /\ st_pc[w] = "drive"
    /\ led_line' = GpiodSetValue(st_arg[w])
    /\ st_ret' = [st_ret EXCEPT ![w] = Len(st_in[w])]
    /\ st_pc' = [st_pc EXCEPT ![w] = "idle"]
    /\ st_in' = [st_in EXCEPT ![w] = <<>>]
    /\ st_arg' = [st_arg EXCEPT ![w] = 0]
    /\ UNCHANGED <<led_status, st_val, show_buf>>
    /\ LedFrame

Store(w, inputs) ==
    \/ StoreCall(w, inputs) \/ StoreCheck(w) \/ StoreAssign(w)
    \/ StoreLoad(w) \/ StoreDrive(w)

\* return sprintf(buf, "%d\n", led_status);
ShowText == SprintfD(led_status) \o <<"\n">>

\* read(2) on the attribute: led_status_show
Show ==
    /\ "attr_led_status" \in held
    /\ show_buf' = ShowText
    /\ UNCHANGED <<led_status, led_line, stv>>
    /\ LedFrame

(***************************************************************************)
(* gpio_button_probe.  pr_pc names the statement probe() executes next.    *)
(* No probe/remove step touches what PrFrame lists.                        *)
(***************************************************************************)
PrFrame0 ==
    UNCHANGED <<debounce_active, button_event_flag, cb_pc, button_state,
                isr_pc, rdr, pol, button_level, fixed, led_status, stv,
                show_buf, win, undelivered, drained, late_sample>>

\* a step of probe() proper: it releases nothing and does not drive the LED
PrFrame ==
    /\ PrFrame0
    /\ UNCHANGED <<led_line, rel_seq, isr_ran>>

\* the step set up x if it went on to statement `to`
Acquired(x, to) ==
    acq_seq' = Rec("teardown",
                   IF pr_pc' = to THEN Append(acq_seq, x) ELSE acq_seq,
                   acq_seq)

\* the step tore down x
Released(x) == rel_seq' = Rec("teardown", Append(rel_seq, x), rel_seq)

\* button_gpio = gpiod_get(dev, "button", GPIOD_IN); on error return at once.
\* gpiod_direction_input / gpiod_set_debounce results are not looked at.
ProbeGetButton ==
    /\ pr_pc = "unbound"
    /\ \E ok \in BOOLEAN :
          IF ok
            THEN /\ held' = held \cup {"button_gpio"}
                 /\ pr_pc' = "get_led"
                 /\ pr_ret' = "none"
            ELSE /\ held' = held
                 /\ pr_pc' = "unbound"
                 /\ pr_ret' = "err"
    /\ rm_raced' = Rec("teardown", FALSE, rm_raced)
    /\ acq_seq' = Rec("teardown",
                      IF pr_pc' = "get_led" THEN <<"button_gpio">> ELSE <<>>,
                      acq_seq)
    /\ rel_seq' = Rec("teardown", <<>>, rel_seq)
    /\ isr_ran' = Rec("teardown", FALSE, isr_ran)
    /\ UNCHANGED <<timer_pending, timer_left, timer_shutdown, irq_pending,
                   irq_enabled, led_line>>
    /\ PrFrame0

\* led_gpio = gpiod_get(dev, "led", GPIOD_OUT_LOW): the line is driven low
ProbeGetLed ==
    /\ pr_pc = "get_led"
    /\ \E ok \in BOOLEAN :
          IF ok
            THEN /\ held' = held \cup {"led_gpio"}
                 /\ led_line' = 0
                 /\ pr_pc' = "timer_setup"
            ELSE /\ held' = held
                 /\ led_line' = led_line
                 /\ pr_pc' = "err_led"
    /\ Acquired("led_gpio", "timer_setup")
    /\ UNCHANGED <<pr_ret, rm_raced, timer_pending, timer_left, timer_shutdown,
                   irq_pending, irq_enabled, rel_seq, isr_ran>>
    /\ PrFrame0

\* variant: the timer is not set up
ProbeTimerSetup_Missing ==
    /\ pr_pc = "timer_setup"
    /\ pr_pc' = "to_irq"
    /\ UNCHANGED <<held, pr_ret, rm_raced, irq_pending, irq_enabled,
                   timer_pending, timer_left, timer_shutdown, acq_seq>>
    /\ PrFrame

\* timer_setup(&debounce_timer, debounce_timer_callback, 0);
ProbeTimerSetup ==
    /\ pr_pc = "timer_setup"
    /\ timer_pending' = FALSE
    /\ timer_left' = 0
    /\ timer_shutdown' = FALSE
    /\ pr_pc' = "to_irq"
    /\ Acquired("debounce_timer", "to_irq")
    /\ UNCHANGED <<held, pr_ret, rm_raced, irq_pending, irq_enabled>>
    /\ PrFrame

\* irq_number = gpiod_to_irq(button_gpio);
ProbeToIrq ==
    /\ pr_pc = "to_irq"
    /\ \E ok \in BOOLEAN :
          pr_pc' = IF ok THEN "request_irq" ELSE "err_irqnum"
    /\ UNCHANGED <<held, pr_ret, rm_raced, timer_pending, timer_left,
                   timer_shutdown, irq_pending, irq_enabled, acq_seq>>
    /\ PrFrame

\* ret = request_irq(irq_number, gpio_button_isr, RISING | FALLING, ...);
ProbeRequestIrq ==
    /\ pr_pc = "request_irq"
    /\ \E ok \in BOOLEAN :
          IF ok
            THEN /\ held' = held \cup {"irq"}
                 /\ irq_enabled' = TRUE
                 /\ irq_pending' = FALSE
                 /\ pr_pc' = "alloc_chrdev"
            ELSE /\ UNCHANGED <<held, irq_enabled, irq_pending>>
                 /\ pr_pc' = "err_req_irq"
    /\ Acquired("irq", "alloc_chrdev")
    /\ UNCHANGED <<pr_ret, rm_raced, timer_pending, timer_left, timer_shutdown>>
    /\ PrFrame

\* if (alloc_chrdev_region(&dev_num, 0, 1, DRIVER_NAME)) goto err_alloc;
ProbeAllocChrdev ==
    /\ pr_pc = "alloc_chrdev"
    /\ \E ok \in BOOLEAN :
          IF ok
            THEN /\ held' = held \cup {"chrdev_region"}
                 /\ pr_pc' = "cdev_add"
            ELSE /\ held' = held
                 /\ pr_pc' = "err_alloc"
    /\ Acquired("chrdev_region", "cdev_add")
    /\ UNCHANGED <<pr_ret, rm_raced, timer_pending, timer_left, timer_shutdown,
                   irq_pending, irq_enabled>>
    /\ PrFrame

\* if (cdev_add(&c_dev, dev_num, 1)) goto err_add;   (err_add falls through
\* to err_alloc: the same statement)
ProbeCdevAdd ==
    /\ pr_pc = "cdev_add"
    /\ \E ok \in BOOLEAN :
          IF ok
            THEN /\ held' = held \cup {"cdev"}
                 /\ pr_pc' = "class_create"
            ELSE /\ held' = held
                 /\ pr_pc' = "err_alloc"
    /\ Acquired("cdev", "class_create")
    /\ UNCHANGED <<pr_ret, rm_raced, timer_pending, timer_left, timer_shutdown,
                   irq_pending, irq_enabled>>
    /\ PrFrame

\* cl = class_create(DRIVER_NAME); if (IS_ERR(cl)) goto err_class;
ProbeClassCreate ==
    /\ pr_pc = "class_create"
    /\ \E ok \in BOOLEAN :
          IF ok
            THEN /\ held' = held \cup {"class"}
                 /\ pr_pc' = "dev_chardev"
            ELSE /\ held' = held
                 /\ pr_pc' = "err_class"
    /\ Acquired("class", "dev_chardev")
    /\ UNCHANGED <<pr_ret, rm_raced, timer_pending, timer_left, timer_shutdown,
                   irq_pending, irq_enabled>>
    /\ PrFrame

\* device_create() returns a device or an ERR_PTR, never NULL
DeviceCreateResults == {"dev", "ERR_PTR"}

\* if (!device_create(cl, NULL, dev_num, NULL, "%s", DRIVER_NAME))
DevChardevFailed(res) == res = "NULL"

ProbeDevChardev ==
    /\ pr_pc = "dev_chardev"
    /\ \E res \in DeviceCreateResults :
          /\ held' = IF res = "dev" THEN held \cup {"dev_chardev"} ELSE held
          /\ pr_pc' = IF DevChardevFailed(res) THEN "err_dev_chardev" ELSE "dev_sysfs"
          /\ acq_seq' = Rec("teardown",
                            IF res = "dev" THEN Append(acq_seq, "dev_chardev")
                                           ELSE acq_seq,
                            acq_seq)
    /\ UNCHANGED <<pr_ret, rm_raced, timer_pending, timer_left, timer_shutdown,
                   irq_pending, irq_enabled>>
    /\ PrFrame

\* sysfs_dev = device_create(cl, NULL, 0, NULL, "gpio_button_sysfs");
ProbeDevSysfs ==
    /\ pr_pc = "dev_sysfs"
    /\ \E ok \in BOOLEAN :
          IF ok
            THEN /\ held' = held \cup {"dev_sysfs"}
                 /\ pr_pc' = "attr_file"
            ELSE /\ held' = held
                 /\ pr_pc' = "err_dev_sysfs"
    /\ Acquired("dev_sysfs", "attr_file")
    /\ UNCHANGED <<pr_ret, rm_raced, timer_pending, timer_left, timer_shutdown,
                   irq_pending, irq_enabled>>
    /\ PrFrame

\* ret = device_create_file(sysfs_dev, &dev_attr_led_status); ... return 0;
ProbeAttrFile ==
    /\ pr_pc = "attr_file"
    /\ \E ok \in BOOLEAN :
          IF ok
            THEN /\ held' = held \cup {"attr_led_status"}
                 /\ pr_pc' = "bound"
                 /\ pr_ret' = "ok"
            ELSE /\ held' = held
                 /\ pr_pc' = "err_sysfs_attr"
                 /\ pr_ret' = pr_ret
    /\ Acquired("attr_led_status", "bound")
    /\ UNCHANGED <<rm_raced, timer_pending, timer_left, timer_shutdown,
                   irq_pending, irq_enabled>>
    /\ PrFrame

(***************************************************************************)
(* The error labels of probe(): each falls through to the next.            *)
(***************************************************************************)
\* what no step of the unwinding or of remove() touches
RelFrame0 ==
    /\ PrFrame0
    /\ UNCHANGED <<led_line, acq_seq, isr_ran>>

\* what a step that only releases resources leaves alone
RelFrame ==
    /\ UNCHANGED <<rm_raced, timer_pending, timer_left, timer_shutdown,
                   irq_pending, irq_enabled>>
    /\ RelFrame0

\* err_sysfs_attr: device_destroy(cl, 0);
ErrSysfsAttr ==
    /\ pr_pc = "err_sysfs_attr"
    /\ held' = held \ {"dev_sysfs"}
    /\ Released("dev_sysfs")
    /\ pr_pc' = "err_dev_sysfs"
    /\ pr_ret' = pr_ret
    /\ RelFrame

\* err_dev_sysfs: device_destroy(cl, dev_num);
ErrDevSysfs ==
    /\ pr_pc = "err_dev_sysfs"
    /\ held' = held \ {"dev_chardev"}
    /\ Released("dev_chardev")
    /\ pr_pc' = "err_dev_chardev"
    /\ pr_ret' = pr_ret
    /\ RelFrame

\* err_dev_chardev: class_destroy(cl);
ErrDevChardev ==
    /\ pr_pc = "err_dev_chardev"
    /\ held' = held \ {"class"}
    /\ Released("class")
    /\ pr_pc' = "err_class"
    /\ pr_ret' = pr_ret
    /\ RelFrame

\* err_class: cdev_del(&c_dev);
ErrClassCdevDel ==
    /\ pr_pc = "err_class"
    /\ held' = held \ {"cdev"}
    /\ Released("cdev")
    /\ pr_pc' = "err_class_unregister"
    /\ pr_ret' = pr_ret
    /\ RelFrame

\* unregister_chrdev_region(dev_num, 1);
ErrClassUnregister ==
    /\ pr_pc = "err_class_unregister"
    /\ held' = held \ {"chrdev_region"}
    /\ Released("chrdev_region")
    /\ pr_pc' = "err_alloc"
    /\ pr_ret' = pr_ret
    /\ RelFrame

\* free_irq()/disable_irq() return only once no handler is running
IrqSynchronized == isr_pc = "idle"

\* variant: the timer is deleted without waiting for a running callback
TimerSynchronized_NoWait == TRUE

\* GPIOBTN_TIMER_DELETE() returns only once the callback is not running
TimerSynchronized == cb_pc = "idle"

\* timer_shutdown_sync() marks the timer dead; the older helpers do not
TimerDeleteShutsDown == kver = "timer_shutdown_sync"

\* err_add: err_alloc: free_irq(irq_number, NULL);
ErrAllocFreeIrq ==
    /\ pr_pc = "err_alloc"
    /\ IrqSynchronized
    /\ held' = held \ {"irq"}
    /\ Released("irq")
    /\ irq_enabled' = FALSE
    /\ irq_pending' = FALSE
    /\ rm_raced' = Rec("teardown", timer_pending \/ cb_pc # "idle", rm_raced)
    /\ pr_pc' = "err_timer_delete"
    /\ UNCHANGED <<pr_ret, timer_pending, timer_left, timer_shutdown>>
    /\ RelFrame0

\* GPIOBTN_TIMER_DELETE(&debounce_timer);
ErrTimerDelete ==
    /\ pr_pc = "err_timer_delete"
    /\ TimerSynchronized
    /\ timer_pending' = FALSE
    /\ timer_left' = 0
    /\ timer_shutdown' = (timer_shutdown \/ TimerDeleteShutsDown)
    /\ Released("debounce_timer")
    /\ pr_pc' = "err_irqnum"
    /\ UNCHANGED <<held, pr_ret, rm_raced, irq_pending, irq_enabled>>
    /\ RelFrame0

\* err_req_irq: err_irqnum: gpiod_put(led_gpio);
ErrIrqnum ==
    /\ pr_pc \in {"err_req_irq", "err_irqnum"}
    /\ held' = held \ {"led_gpio"}
    /\ Released("led_gpio")
    /\ pr_pc' = "err_led"
    /\ pr_ret' = pr_ret
    /\ RelFrame

\* err_led: gpiod_put(button_gpio); return ret;
ErrLed ==
    /\ pr_pc = "err_led"
    /\ held' = held \ {"button_gpio"}
    /\ Released("button_gpio")
    /\ pr_pc' = "unbound"
    /\ pr_ret' = "err"
    /\ RelFrame

(***************************************************************************)
(* gpio_button_remove                                                      *)
(***************************************************************************)
\* disable_irq(irq_number);
RemoveDisableIrq ==
    /\ pr_pc = "bound"
    /\ IrqSynchronized
    /\ irq_enabled' = FALSE
    /\ rm_raced' = Rec("teardown", timer_pending \/ cb_pc # "idle", rm_raced)
    /\ rel_seq' = Rec("teardown", <<"irq_disabled">>, rel_seq)
    /\ pr_pc' = "rm_timer_delete"
    /\ UNCHANGED <<held, pr_ret, timer_pending, timer_left, timer_shutdown,
                   irq_pending>>
    /\ RelFrame0

\* GPIOBTN_TIMER_DELETE(&debounce_timer);
RemoveTimerDelete ==
    /\ pr_pc = "rm_timer_delete"
    /\ TimerSynchronized
    /\ timer_pending' = FALSE
    /\ timer_left' = 0
    /\ timer_shutdown' = (timer_shutdown \/ TimerDeleteShutsDown)
    /\ Released("debounce_timer")
    /\ pr_pc' = "rm_attr"
    /\ UNCHANGED <<held, pr_ret, rm_raced, irq_pending, irq_enabled>>
    /\ RelFrame0

\* one statement of remove() that releases resource res
RemoveStep(at, res, next) ==
    /\ pr_pc = at
    /\ held' = held \ {res}
    /\ Released(res)
    /\ pr_pc' = next
    /\ pr_ret' = pr_ret
    /\ RelFrame

\* removing a sysfs file waits until no show/store of it is running
SysfsDrained == \A w \in AllWriters : st_pc[w] = "idle"

\* device_remove_file(sysfs_dev, &dev_attr_led_status);
RemoveAttrFile ==
    /\ SysfsDrained
    /\ RemoveStep("rm_attr", "attr_led_status", "rm_dev_sysfs")
\* device_destroy(cl, 0);
RemoveDevSysfs == RemoveStep("rm_dev_sysfs", "dev_sysfs", "rm_dev_chardev")
\* device_destroy(cl, dev_num);
RemoveDevChardev == RemoveStep("rm_dev_chardev", "dev_chardev", "rm_class")
\* class_destroy(cl);
RemoveClass == RemoveStep("rm_class", "class", "rm_cdev")
\* cdev_del(&c_dev);
RemoveCdev == RemoveStep("rm_cdev", "cdev", "rm_region")
\* unregister_chrdev_region(dev_num, 1);
RemoveRegion == RemoveStep("rm_region", "chrdev_region", "rm_free_irq")

\* free_irq(irq_number, NULL);
RemoveFreeIrq ==
    /\ pr_pc = "rm_free_irq"
    /\ IrqSynchronized
    /\ held' = held \ {"irq"}
    /\ Released("irq")
    /\ irq_pending' = FALSE
    /\ pr_pc' = "rm_put_button"
    /\ UNCHANGED <<pr_ret, rm_raced, timer_pending, timer_left, timer_shutdown,
                   irq_enabled>>
    /\ RelFrame0

\* gpiod_put(button_gpio);
RemovePutButton == RemoveStep("rm_put_button", "button_gpio", "rm_put_led")

\* gpiod_put(led_gpio); return
RemovePutLed ==
    /\ pr_pc = "rm_put_led"
    /\ held' = held \ {"led_gpio"}
    /\ Released("led_gpio")
    /\ pr_pc' = "unbound"
    /\ pr_ret' = "none"
    /\ RelFrame

(***************************************************************************)
(* Specifications.                                                         *)
(***************************************************************************)
Isr == IsrEnter \/ IsrSetActive \/ IsrModTimer

TimerCallback == TimerExpire \/ CbSample \/ CbSignal \/ CbWake \/ CbClear

Probe ==
    \/ ProbeGetButton \/ ProbeGetLed \/ ProbeTimerSetup \/ ProbeToIrq
    \/ ProbeRequestIrq \/ ProbeAllocChrdev \/ ProbeCdevAdd \/ ProbeClassCreate
    \/ ProbeDevChardev \/ ProbeDevSysfs \/ ProbeAttrFile

ProbeUnwind ==
    \/ ErrSysfsAttr \/ ErrDevSysfs \/ ErrDevChardev \/ ErrClassCdevDel
    \/ ErrClassUnregister \/ ErrAllocFreeIrq \/ ErrTimerDelete \/ ErrIrqnum
    \/ ErrLed

Remove ==
    \/ RemoveDisableIrq \/ RemoveTimerDelete \/ RemoveAttrFile
    \/ RemoveDevSysfs \/ RemoveDevChardev \/ RemoveClass \/ RemoveCdev
    \/ RemoveRegion \/ RemoveFreeIrq \/ RemovePutButton \/ RemovePutLed

Read(r) ==
    \/ ReadCall(r) \/ ReadCheck(r) \/ ReadInterrupted(r) \/ ReadClear(r)
    \/ ReadCopy(r)

Driver == Isr \/ TimerCallback \/ Probe \/ ProbeUnwind \/ Remove \/ Poll

\* one consumer of the event device
Next ==
    \/ ButtonEdge
    \/ Tick
    \/ Driver
    \/ \E r \in SingleReader : Read(r)

Spec == Init /\ [][Next]_vars

(***************************************************************************)
(* Scheduling: a handler that has started runs to its end, time passes,    *)
(* an expired timer is run, and a process inside read() is scheduled.      *)
(* Nothing obliges a process to call read(), a signal to arrive, the       *)
(* button to move or the device to be bound or unbound.                    *)
(***************************************************************************)
InitFair ==
    /\ InitDriver
    /\ observe = WakeupGroup

Fairness ==
    /\ WF_vars(Isr)
    /\ WF_vars(Tick)
    /\ WF_vars(TimerCallback)
    /\ \A r \in SingleReader :
          WF_vars(ReadCheck(r) \/ ReadClear(r) \/ ReadCopy(r))

FairSpec == InitFair /\ [][Next]_vars /\ Fairness

(***************************************************************************)
(* The LED attribute on its own, and next to the debounce path.            *)
(***************************************************************************)
\* a controller whose first probe() has just returned 0
AttachedState ==
    /\ debounce_active = 0
    /\ button_event_flag = 0
    /\ timer_pending = FALSE
    /\ timer_left = 0
    /\ timer_shutdown = FALSE
    /\ held = Resources
    /\ cb_pc = "idle"
    /\ button_state = 2
    /\ isr_pc = "idle"
    /\ pr_pc = "bound"
    /\ pr_ret = "ok"
    /\ rd_pc = [r \in AllReaders |-> "idle"]
    /\ rd_ret = [r \in AllReaders |-> 0]
    /\ rd_buf = [r \in AllReaders |-> ""]
    /\ was_intr = [r \in AllReaders |-> FALSE]
    /\ woken_by_press = [r \in AllReaders |-> FALSE]
    /\ poll_ret = 0
    /\ button_level \in {0, 1}
    /\ irq_pending = FALSE
    /\ irq_enabled = TRUE
    /\ kver \in TimerDeleteKinds
    /\ win_bounced = FALSE
    /\ win_sets = 0
    /\ win_reads = 0
    /\ win_clean = FALSE
    /\ win_sample = 2
    /\ win_signalled = FALSE
    /\ undelivered = 0
    /\ drained = 0
    /\ late_sample = FALSE
    /\ rm_raced = FALSE
    /\ acq_seq = <<>>
    /\ rel_seq = <<>>
    /\ isr_ran = FALSE
    /\ led_status = 0
    /\ led_line = 0
    /\ st_pc = [w \in AllWriters |-> "idle"]
    /\ st_in = [w \in AllWriters |-> <<>>]
    /\ st_val = [w \in AllWriters |-> 0]
    /\ st_arg = [w \in AllWriters |-> 0]
    /\ st_ret = [w \in AllWriters |-> 0]
    /\ show_buf = <<>>
    /\ app_pc = "start"
    /\ keep_running = 1
    /\ sig_pending = FALSE
    /\ current_led_state = 0
    /\ led_fd = FALSE
    /\ app_wrote = -1

InitAttached ==
    /\ AttachedState
    /\ observe = NoGroup

\* one process writes and reads the attribute of an attached controller
NextStore ==
    \/ \E w \in SingleWriter : Store(w, StoreInputs)
    \/ Show

StoreSpec == InitAttached /\ [][NextStore]_vars

\* several processes write the attribute while the device is bound, unbound
\* and bound again
InitLed ==
    /\ InitDriver
    /\ observe = NoGroup

NextLed ==
    \/ Probe
    \/ ProbeUnwind
    \/ Remove
    \/ \E w \in AllWriters : Store(w, ConcurrentInputs)
    \/ Show

LedSpec == InitLed /\ [][NextLed]_vars

\* the attribute is used while the button is at work
NextMix ==
    \/ ButtonEdge
    \/ Tick
    \/ Isr
    \/ TimerCallback
    \/ Poll
    \/ \E r \in SingleReader : Read(r)
    \/ \E w \in SingleWriter : Store(w, ConcurrentInputs)
    \/ Show

MixSpec == InitAttached /\ [][NextMix]_vars

(***************************************************************************)
(* Steps of the handlers, told by what they do to the positions.           *)
(***************************************************************************)
\* gpio_button_isr is entered: the latched edge is taken
IsrEntry == isr_pc = "idle" /\ irq_pending /\ ~irq_pending' /\ pr_pc' = pr_pc
IsrSetStep == isr_pc = "set_active" /\ isr_pc' # "set_active"
IsrArmStep == isr_pc = "mod_timer" /\ isr_pc' # "mod_timer"
CbSampleStep == cb_pc = "sample" /\ cb_pc' # "sample"
CbSignalStep == cb_pc = "signal" /\ cb_pc' # "signal"
CbWakeStep == cb_pc = "wake" /\ cb_pc' # "wake"
CbClearStep == cb_pc = "clear" /\ cb_pc' # "clear"

\* the latest window has run to its end: its expiry sampled and cleared the guard
WindowClosed == debounce_active = 0 /\ win_sample # 2

(***************************************************************************)
(* C1 (as amended).  Coalescing: for a window opened with no event pending,*)
(* however many edge interrupts arrive in it, the Pending Event Flag goes  *)
(* false -> true at most once and at most one read() gets past its wait    *)
(* per transition; once the window has closed the flag went true exactly   *)
(* once if its expiry sampled "pressed" (0) and not at all otherwise.      *)
(***************************************************************************)
Coalescing_C1 ==
    win_clean =>
        /\ win_sets <= 1
        /\ win_reads <= win_sets
        /\ WindowClosed => (win_sets = 1 <=> win_sample = 0)

\* C1 as stated: every such window, once closed, has made exactly one
\* false -> true transition of the flag (and let no more than one read through)
Coalescing_C1_AsStated ==
    (win_clean /\ WindowClosed) => (win_sets = 1 /\ win_reads <= 1)

\* a window with several interrupts closed with one transition and one read
Coalescing_C1_Witness ==
    /\ win_clean
    /\ WindowClosed
    /\ win_bounced
    /\ win_sets = 1
    /\ win_reads = 1

(***************************************************************************)
(* C2.  The expiry callback samples the line once; it sets the flag and    *)
(* wakes the parked readers exactly when the sample is 0 (pressed), leaves *)
(* flag and readers alone otherwise, and clears the guard in both cases.   *)
(***************************************************************************)
TimerExpiry_C2 ==
    [][ /\ CbSampleStep =>
             /\ "button_gpio" \in held => button_state' = button_level
             /\ UNCHANGED <<button_event_flag, debounce_active, rd_pc>>
        /\ CbSignalStep =>
             /\ button_state' = button_state
             /\ IF button_state = 0
                  THEN button_event_flag' = 1 /\ cb_pc' = "wake"
                  ELSE /\ button_event_flag' = button_event_flag
                       /\ rd_pc' = rd_pc
                       /\ cb_pc' = "clear"
        /\ CbWakeStep =>
             /\ \A r \in AllReaders : rd_pc'[r] # "sleep"
             /\ button_event_flag' = button_event_flag
             /\ cb_pc' = "clear"
        /\ CbClearStep =>
             /\ debounce_active' = 0
             /\ cb_pc' = "idle"
             /\ button_event_flag' = button_event_flag
      ]_vars

\* after an expiry that sampled "released" and signalled nothing, the next
\* edge interrupt has opened a new window
TimerExpiry_C2_Witness ==
    /\ win_sample = 1
    /\ isr_pc = "mod_timer"
    /\ debounce_active = 1
    /\ ~win_signalled
    /\ win_clean

(***************************************************************************)
(* C3.  An edge interrupt handled while the guard is true returns at once: *)
(* guard, timer (armed or not, and its time left) and flag are unchanged.  *)
(***************************************************************************)
IsrIgnored_C3 ==
    [][ (IsrEntry /\ debounce_active = 1) =>
            /\ isr_pc' = "idle"
            /\ debounce_active' = 1
            /\ UNCHANGED <<timer_pending, timer_left, timer_shutdown,
                           button_event_flag>>
      ]_vars

\* an interrupt was ignored in an open window whose timer has partly run down
IsrIgnored_C3_Witness ==
    /\ win_bounced
    /\ debounce_active = 1
    /\ timer_pending
    /\ timer_left < DEBOUNCE_MS

(***************************************************************************)
(* C4.  Re-arm after settle: an edge interrupt handled while the guard is  *)
(* false always goes on to set the guard and arm the timer for 50 ms,      *)
(* whatever the flag and the earlier windows; and a window signals an      *)
(* event exactly when its own expiry sampled 0.                            *)
(***************************************************************************)
Rearm_C4 ==
    /\ [][ /\ (IsrEntry /\ debounce_active = 0) => isr_pc' = "set_active"
           /\ IsrSetStep => (debounce_active' = 1 /\ isr_pc' = "mod_timer")
           /\ IsrArmStep =>
                /\ debounce_active' = 1
                /\ timer_pending'
                /\ timer_left' = DEBOUNCE_MS
                /\ isr_pc' = "idle"
         ]_vars
    /\ [](WindowClosed => (win_signalled <=> win_sample = 0))

\* a new window was armed while an event of an earlier window is still pending
Rearm_C4_Witness ==
    /\ win_sample # 2
    /\ ~win_clean
    /\ button_event_flag = 1
    /\ isr_pc = "idle"
    /\ timer_pending
    /\ timer_left = DEBOUNCE_MS

(***************************************************************************)
(* C5.  Single slot, one reader: read() never returns more markers than    *)
(* there were pressed expiries, and after any number of pressed expiries   *)
(* at most one read() gets past its wait until the next pressed expiry.    *)
(***************************************************************************)
SingleSlot_C5 ==
    /\ undelivered >= 0
    /\ drained <= 1

\* two pressed expiries, one marker returned, and the next read() is parked
SingleSlot_C5_Witness ==
    /\ undelivered = 1
    /\ drained = 1
    /\ button_event_flag = 0
    /\ rd_pc[1] = "sleep"

(***************************************************************************)
(* C6 (as amended).  No event is lost while the reader is parked: a reader *)
(* parked in read() when an expiry samples "pressed" eventually returns    *)
(* from that read() with one byte, the marker '1' (unless the call is      *)
(* interrupted or the copy faults).  The read clears the flag before it    *)
(* returns; between the clear and the return the flag can only become true *)
(* again through a further pressed expiry.                                 *)
(***************************************************************************)
ParkedAtPress == rd_pc[1] = "sleep" /\ cb_pc = "signal" /\ button_state = 0

Delivered ==
    /\ rd_pc[1] = "idle"
    /\ rd_ret[1] = EVENT_LEN
    /\ rd_buf[1] = EVENT_CHAR

\* the call was interrupted or the copy to the caller faulted
Excused == rd_pc[1] = "idle" /\ rd_ret[1] \in {-ERESTARTSYS, -EFAULT}

NoEventLost_C6 ==
    /\ ParkedAtPress ~> (Delivered \/ Excused)
    /\ [][ /\ (rd_pc[1] = "clear_flag" /\ rd_pc'[1] = "copy") =>
                button_event_flag' = 0
           /\ (rd_pc[1] = "copy" /\ button_event_flag = 0
                                 /\ button_event_flag' = 1) =>
                (cb_pc = "signal" /\ button_state = 0)
         ]_vars

\* C6 as stated: ... and the flag is false once that read() has returned
NoEventLost_C6_AsStated ==
    ParkedAtPress ~> ((Delivered /\ button_event_flag = 0) \/ Excused)

\* the reader that a pressed expiry woke has returned the marker
NoEventLost_C6_Witness == woken_by_press[1] /\ Delivered

(***************************************************************************)
(* C7.  Cancellation safety: an interrupted read() returns -ERESTARTSYS,   *)
(* copies nothing and leaves the flag as it was; the flag is only ever     *)
(* cleared by a read() that got past its wait, so a press signalled after  *)
(* the interruption stays pending for the next read().                     *)
(***************************************************************************)
Cancellation_C7 ==
    [][ /\ \A r \in AllReaders :
             (rd_pc[r] \in {"check", "recheck", "sleep"}
                 /\ rd_ret'[r] = -ERESTARTSYS) =>
                 /\ button_event_flag' = button_event_flag
                 /\ rd_pc'[r] = "idle"
                 /\ rd_buf'[r] = ""
        /\ (button_event_flag = 1 /\ button_event_flag' = 0) =>
             \E r \in AllReaders : rd_pc[r] = "clear_flag" /\ rd_pc'[r] = "copy"
      ]_vars

\* a reader whose earlier read() was interrupted got the marker from a later one
Cancellation_C7_Witness ==
    /\ was_intr[1]
    /\ rd_pc[1] = "idle"
    /\ rd_ret[1] = EVENT_LEN
    /\ rd_buf[1] = EVENT_CHAR

(***************************************************************************)
(* C8.  poll() returns POLLIN exactly when the flag is true at the call,   *)
(* and changes neither the flag nor the guard nor the timer.               *)
(***************************************************************************)
PollReadiness_C8 ==
    [][ (Poll \/ poll_ret' # poll_ret) =>
            /\ poll_ret' = IF button_event_flag = 1 THEN POLLIN ELSE 0
            /\ UNCHANGED <<button_event_flag, debounce_active, timer_pending,
                           timer_left, timer_shutdown>>
      ]_vars

\* poll() reported the event and a read() then got past its wait
PollReadiness_C8_Witness ==
    /\ poll_ret = POLLIN
    /\ button_event_flag = 1
    /\ rd_pc[1] = "clear_flag"

(***************************************************************************)
(* C9.  Teardown quiescence: whenever the button or the LED line is not    *)
(* held, the interrupt is not registered, its handler is not running, the  *)
(* timer is not armed and its callback is not running; the callback never  *)
(* runs without the button line and never sampled a released line.         *)
(***************************************************************************)
LineReleased == "button_gpio" \notin held \/ "led_gpio" \notin held

Quiescent ==
    /\ "irq" \notin held
    /\ isr_pc = "idle"
    /\ ~timer_pending
    /\ cb_pc = "idle"

Teardown_C9 ==
    /\ LineReleased => Quiescent
    /\ ~late_sample

\* remove() began with the timer armed or its callback running and has since
\* released the button line
Teardown_C9_Witness ==
    /\ rm_raced
    /\ pr_pc = "rm_put_led"
    /\ "button_gpio" \notin held

\* the same for the unwinding of a failed probe()
Teardown_C9_UnwindWitness ==
    /\ rm_raced
    /\ pr_pc = "err_led"
    /\ "led_gpio" \notin held

(***************************************************************************)
(* C10.  Attach rollback is complete: when probe() has returned an error,  *)
(* nothing it acquired is still held.                                      *)
(***************************************************************************)
RollbackComplete_C10 ==
    (pr_pc = "unbound" /\ pr_ret = "err") => held = {}

(***************************************************************************)
(* Order of set-up and tear-down.                                          *)
(***************************************************************************)
\* the order in which probe() sets things up
AttachOrder ==
    <<"button_gpio", "led_gpio", "debounce_timer", "irq", "chrdev_region",
      "cdev", "class", "dev_chardev", "dev_sysfs", "attr_led_status">>

Rank(x) == CHOOSE k \in 1..Len(AttachOrder) : AttachOrder[k] = x

Range(seq) == {seq[k] : k \in 1..Len(seq)}

Increasing(seq) ==
    \A i, j \in 1..Len(seq) : i < j => Rank(seq[i]) < Rank(seq[j])

Decreasing(seq) ==
    \A i, j \in 1..Len(seq) : i < j => Rank(seq[i]) > Rank(seq[j])

\* x was torn down, and before y
Before(seq, x, y) ==
    \E i, j \in 1..Len(seq) : i < j /\ seq[i] = x /\ seq[j] = y

ErrLabels ==
    {"err_sysfs_attr", "err_dev_sysfs", "err_dev_chardev", "err_class",
     "err_class_unregister", "err_alloc", "err_timer_delete", "err_req_irq",
     "err_irqnum", "err_led"}

\* probe() is unwinding, or has returned its error
Unwinding == pr_pc \in ErrLabels \/ (pr_pc = "unbound" /\ pr_ret = "err")

\* remove() has returned
Detached == pr_pc = "unbound" /\ pr_ret = "none" /\ rel_seq # <<>>

\* the step with which probe() returns 0
AttachCompletes == pr_pc = "attr_file" /\ pr_pc' = "bound"

(***************************************************************************)
(* C11.  probe() returns 0 only if every acquisition and registration      *)
(* succeeded: once it has returned 0, everything it sets up is held,       *)
(* the /dev/gpio_button device node included.                              *)
(***************************************************************************)
AttachAllOrNothing_C11 ==
    (pr_pc = "bound" /\ pr_ret = "ok") => held = Resources

(***************************************************************************)
(* C12.  remove() tears down in this order: disable the interrupt, delete  *)
(* the timer, the LED attribute (file, device), the event device (node,    *)
(* class, cdev, region), the LED line, the button line.                    *)
(***************************************************************************)
DetachOrder_C12 ==
    Detached =>
        /\ Before(rel_seq, "irq_disabled", "debounce_timer")
        /\ Before(rel_seq, "debounce_timer", "attr_led_status")
        /\ Before(rel_seq, "attr_led_status", "dev_sysfs")
        /\ Before(rel_seq, "dev_sysfs", "dev_chardev")
        /\ Before(rel_seq, "dev_chardev", "chrdev_region")
        /\ Before(rel_seq, "chrdev_region", "led_gpio")
        /\ Before(rel_seq, "led_gpio", "button_gpio")

(***************************************************************************)
(* C13.  probe() sets up button line, LED line, timer (unarmed), interrupt,*)
(* event device, LED attribute in that order, so the interrupt is never    *)
(* registered (and its handler never runs) before timer_setup; what the    *)
(* unwinding of a failed probe() tears down, it tears down in the reverse  *)
(* of that order.                                                          *)
(***************************************************************************)
AttachOrder_C13 ==
    /\ Increasing(acq_seq)
    /\ (acq_seq # <<>> /\ acq_seq[Len(acq_seq)] = "debounce_timer") =>
           (~timer_pending /\ "irq" \notin held /\ isr_pc = "idle")
    /\ (observe = "teardown" /\ ("irq" \in held \/ isr_pc # "idle")) =>
           "debounce_timer" \in Range(acq_seq)
    /\ Unwinding =>
           /\ Decreasing(rel_seq)
           /\ Range(rel_seq) \subseteq Range(AttachOrder)

\* a probe() that failed at its last step has torn down all it had set up
AttachOrder_C13_Witness ==
    /\ pr_pc = "unbound"
    /\ pr_ret = "err"
    /\ Len(acq_seq) = Len(AttachOrder) - 1
    /\ Len(rel_seq) = Len(AttachOrder) - 1
    /\ held = {}

(***************************************************************************)
(* C14.  Controller state does not outlive the attach/detach bracket: when *)
(* a probe() returns 0 (no interrupt having been handled since it began),  *)
(* the guard is false, the timer is unarmed and the flag is false.         *)
(***************************************************************************)
StateReset_C14 ==
    [][ (AttachCompletes /\ observe = "teardown" /\ ~isr_ran) =>
            /\ debounce_active' = 0
            /\ ~timer_pending'
            /\ button_event_flag' = 0
      ]_vars

(***************************************************************************)
(* C15.  LED default at attach: when a probe() returns 0 the LED line is   *)
(* at 0 and led_status_show gives "0\n".                                   *)
(***************************************************************************)
LedDefault_C15 ==
    [][ AttachCompletes =>
            /\ led_line' = 0
            /\ SprintfD(led_status') \o <<"\n">> = <<"0", "\n">>
      ]_vars

(***************************************************************************)
(* C16.  LED set success: a write of fewer than 16 bytes that, with one    *)
(* trailing newline stripped, is an unsigned decimal numeral of value v in *)
(* {0,1} is accepted with val = v; the call stores v in led_status, drives *)
(* the LED line to v and returns the number of bytes written; a show that  *)
(* follows gives v and a newline.                                          *)
(***************************************************************************)
\* an unsigned decimal numeral: one or more digits and nothing else
IsUnsignedDecimal(t) == t # <<>> /\ \A k \in 1..Len(t) : IsDigit(t[k])

DecimalValue(t) == DigitsValue(t, Len(t))

ValidLedInput(i) ==
    /\ Len(i) < LOCAL_BUF_SIZE
    /\ IsUnsignedDecimal(StripNewline(i))
    /\ DecimalValue(StripNewline(i)) \in {0, 1}

LedSetSuccess_C16 ==
    [][ \A w \in SingleWriter :
          /\ (st_pc[w] = "check" /\ st_pc'[w] # "check"
                 /\ ValidLedInput(st_in[w])) =>
                /\ st_pc'[w] = "assign"
                /\ st_val'[w] = DecimalValue(StripNewline(st_in[w]))
          /\ (st_pc[w] = "drive" /\ st_pc'[w] # "drive") =>
                /\ st_ret'[w] = Len(st_in[w])
                /\ led_status' = st_val[w]
                /\ led_line' = st_val[w]
          /\ (Show /\ st_pc[w] = "idle" /\ st_ret[w] > 0) =>
                show_buf' = <<DigitChars[st_val[w] + 1], "\n">>
      ]_vars

\* a write of 15 bytes of value 1 was accepted and then read back
LedSetSuccess_C16_Witness ==
    /\ st_pc[1] = "idle"
    /\ st_ret[1] = LOCAL_BUF_SIZE - 1
    /\ led_status = 1
    /\ led_line = 1
    /\ show_buf = <<"1", "\n">>

(***************************************************************************)
(* C17.  LED set rejection: a write that is 16 bytes or longer, is empty,  *)
(* is not an unsigned decimal numeral once one trailing newline is         *)
(* stripped, or has a value other than 0 and 1, returns an error and       *)
(* leaves led_status and the LED line as they were.                        *)
(***************************************************************************)
LedSetRejection_C17 ==
    [][ \A w \in SingleWriter :
          (st_pc[w] = "check" /\ st_pc'[w] # "check"
              /\ ~ValidLedInput(st_in[w])) =>
              /\ st_pc'[w] = "idle"
              /\ st_ret'[w] < 0
              /\ led_status' = led_status
              /\ led_line' = led_line
      ]_vars

(***************************************************************************)
(* C18.  LED mirror: while the controller is attached and no store is in   *)
(* progress, led_status is 0 or 1 and equals the level of the LED line,    *)
(* whatever the interleaving of stores from several processes.             *)
(***************************************************************************)
LedMirror_C18 ==
    (pr_pc = "bound" /\ \A w \in AllWriters : st_pc[w] = "idle") =>
        (led_status \in {0, 1} /\ led_status = led_line)

(***************************************************************************)
(* C19.  The LED and the debounce paths are disjoint: no step of show or   *)
(* store changes the guard, the timer or the flag, and no step of the      *)
(* interrupt handler, the timer callback, read() or poll() changes         *)
(* led_status or the LED line.                                             *)
(***************************************************************************)
LedStep == stv' # stv \/ Show

DebounceStep ==
    \/ Isr
    \/ TimerCallback
    \/ Poll
    \/ \E r \in AllReaders : Read(r)

LedDisjoint_C19 ==
    [][ /\ LedStep =>
              UNCHANGED <<debounce_active, timer_pending, timer_left,
                          timer_shutdown, button_event_flag>>
        /\ DebounceStep => UNCHANGED <<led_status, led_line>>
      ]_vars

\* a store is between its two writes while the callback is signalling a press
LedDisjoint_C19_Witness ==
    /\ st_pc[1] = "load"
    /\ led_status = 1
    /\ cb_pc = "wake"
    /\ button_event_flag = 1
    /\ debounce_active = 1

(***************************************************************************)
(* C20.  One timer, armed only inside a window: an armed timer or a        *)
(* running callback implies the guard is true, and mod_timer is never      *)
(* called while the timer is armed or its callback is running.             *)
(***************************************************************************)
SingleTimer_C20 ==
    /\ []((timer_pending \/ cb_pc # "idle") => debounce_active = 1)
    /\ [][ IsrArmStep => (~timer_pending /\ cb_pc = "idle") ]_vars

\* an edge is latched while the callback of the open window is running
SingleTimer_C20_Witness ==
    /\ pr_pc = "bound"
    /\ cb_pc = "signal"
    /\ irq_pending
    /\ debounce_active = 1

(***************************************************************************)
(* C21.  The guard has one writer per direction: it goes 0 -> 1 only in    *)
(* gpio_button_isr and 1 -> 0 only in debounce_timer_callback; read, poll, *)
(* probe and remove never write it.                                        *)
(***************************************************************************)
GuardOrigin_C21 ==
    [][ /\ (debounce_active = 0 /\ debounce_active' # 0) =>
              (IsrSetStep /\ debounce_active' = 1)
        /\ (debounce_active # 0 /\ debounce_active' # debounce_active) =>
              (CbClearStep /\ debounce_active' = 0)
      ]_vars

\* the guard has gone up and come down on a bound device that was read and
\* polled meanwhile
GuardOrigin_C21_Witness ==
    /\ pr_pc = "bound"
    /\ observe = "window"
    /\ WindowClosed
    /\ win_signalled
    /\ rd_ret[1] = EVENT_LEN
    /\ poll_ret = POLLIN

(***************************************************************************)
(* Detach entered twice.  gpio_button_remove() keeps no record of what it  *)
(* has released: it has no conditional, and it clears neither the          *)
(* descriptors nor irq_number, cl or dev_num.  A second entry for the same *)
(* attachment therefore starts at disable_irq() like the first one and     *)
(* runs the same statements.                                               *)
(***************************************************************************)
RemoveAgain ==
    /\ Detached
    /\ Len(rel_seq) = Cardinality(Resources) + 2
    /\ IrqSynchronized
    /\ irq_enabled' = FALSE
    /\ rel_seq' = Rec("teardown", Append(rel_seq, "irq_disabled"), rel_seq)
    /\ pr_pc' = "rm_timer_delete"
    /\ UNCHANGED <<held, pr_ret, rm_raced, timer_pending, timer_left,
                   timer_shutdown, irq_pending>>
    /\ RelFrame0

InitDetach ==
    /\ InitDriver
    /\ observe = "teardown"

NextDetach ==
    \/ Probe
    \/ ProbeUnwind
    \/ Remove
    \/ RemoveAgain

DetachSpec == InitDetach /\ [][NextDetach]_vars

(***************************************************************************)
(* C22.  Detach is idempotent: when it is invoked a second time for the    *)
(* same attachment, what was already released is skipped, so no resource   *)
(* is released twice.                                                      *)
(***************************************************************************)
DetachIdempotent_C22 ==
    \A i, j \in 1..Len(rel_seq) : i # j => rel_seq[i] # rel_seq[j]

(***************************************************************************)
(* Several processes read the event device of an attached controller.      *)
(***************************************************************************)
InitReaders ==
    /\ AttachedState
    /\ observe = "delivery"

NextReaders ==
    \/ ButtonEdge
    \/ Tick
    \/ Isr
    \/ TimerCallback
    \/ \E r \in AllReaders : Read(r)

ReadersSpec == InitReaders /\ [][NextReaders]_vars

(***************************************************************************)
(* C23.  Consumption is an atomic test-and-clear: every false -> true      *)
(* transition of the flag yields at most one marker, however many readers  *)
(* are blocked, so read() never returns more markers than there were       *)
(* debounced presses.                                                      *)
(***************************************************************************)
AtomicConsume_C23 == undelivered >= 0

(***************************************************************************)
(* The debounce path of an attached controller under the scheduling        *)
(* assumptions of Fairness; the device stays bound.                        *)
(***************************************************************************)
NextHold ==
    \/ ButtonEdge
    \/ Tick
    \/ Isr
    \/ TimerCallback
    \/ \E r \in SingleReader : Read(r)

HoldSpec == InitAttached /\ [][NextHold]_vars /\ Fairness

\* the line has just gone to its pressed level and the edge has raised the
\* interrupt
PressEdge == button_level = 0 /\ irq_pending

(***************************************************************************)
(* C24.  A held press is eventually reported: when the line goes to        *)
(* pressed, raising an interrupt, and then stays pressed, the event flag   *)
(* eventually becomes true, whatever the callback of an earlier window is  *)
(* doing when the interrupt is served.                                     *)
(***************************************************************************)
HeldPress_C24 ==
    [](PressEdge /\ [](button_level = 0) => <>(button_event_flag = 1))

(***************************************************************************)
(* C25.  The button never goes permanently deaf: whenever the controller   *)
(* is attached and the guard is true, the guard eventually becomes false   *)
(* (or the controller is detached), whatever sequence of attach, detach    *)
(* and re-attach came before.                                              *)
(***************************************************************************)
NeverDeaf_C25 ==
    (pr_pc = "bound" /\ debounce_active = 1)
        ~> (debounce_active = 0 \/ pr_pc # "bound")

\* read() of reader r returns an error in this step
ReadFails(r) ==
    /\ rd_pc[r] # "idle"
    /\ rd_pc'[r] = "idle"
    /\ rd_ret'[r] < 0

\* the value of the flag that the failing call of reader r found: a call
\* that got past the wait found it set, one that was interrupted found it
\* clear
FlagAsFound(r) == IF rd_pc[r] = "copy" THEN 1 ELSE 0

(***************************************************************************)
(* C26.  A read() that fails never consumes the event: when it returns an  *)
(* error (interrupted, or a fault while copying) the flag has the value    *)
(* the call found, so a pending press is still there for the next read().  *)
(***************************************************************************)
FailedReadKeepsEvent_C26 ==
    [][\A r \in AllReaders :
          ReadFails(r) => button_event_flag' = FlagAsFound(r)]_vars

(***************************************************************************)
(* The button application, src/apps/button/button.c.  main() installs      *)
(* sig_handler for SIGINT and SIGTERM with sa_flags = 0 (no SA_RESTART),   *)
(* opens the LED attribute, reads the LED state, opens the event device    *)
(* and then loops: block in read(), toggle, write the LED attribute.  Its  *)
(* system calls are the driver's handlers: read() is gpio_button_read of   *)
(* reader 1, the write()s are led_status_store of writer 1.  "start" is    *)
(* the position after the sigaction() calls.                               *)
(***************************************************************************)
AppReader == 1
AppWriter == 1

\* what no step of main() touches
AppFrame ==
    UNCHANGED <<drv, ctx, rdr, pol, button_level, irq_pending, irq_enabled,
                kver, observe, ledv, win, hist>>

\* the process is inside one of its system calls
InKernel == rd_pc[AppReader] # "idle" \/ st_pc[AppWriter] # "idle"

\* kill(pid, SIGINT) or SIGTERM from outside
Signal ==
    /\ app_pc # "done"
    /\ sig_pending' = TRUE
    /\ UNCHANGED <<app_pc, keep_running, current_led_state, led_fd, app_wrote>>
    /\ AppFrame

\* keep_running after a return to user mode: a pending signal's handler runs
\* before main() goes on
AfterSysret == IF sig_pending THEN 0 ELSE keep_running

\* void sig_handler(int sig) { keep_running = 0; }  It runs when the process
\* is in, or comes back to, user mode.
AppHandler ==
    /\ sig_pending
    /\ ~InKernel
    /\ app_pc # "done"
    /\ keep_running' = 0
    /\ sig_pending' = FALSE
    /\ UNCHANGED <<app_pc, current_led_state, led_fd, app_wrote>>
    /\ AppFrame

\* led_fd = open(GPIO_LED_SYSFS_PATH, O_RDWR); if (led_fd < 0) goto cleanup;
AppOpenLed ==
    /\ app_pc = "start"
    /\ \E ok \in BOOLEAN :
          /\ led_fd' = ok
          /\ app_pc' = IF ok THEN "read_led" ELSE "cleanup"
    /\ UNCHANGED <<keep_running, sig_pending, current_led_state, app_wrote>>
    /\ AppFrame

\* atoi() of what read(led_fd, led_value, sizeof(led_value)) stored: the
\* leading digits of the two bytes
Atoi(buf) ==
    IF Len(buf) > 0 /\ IsDigit(buf[1]) THEN DigitVal(buf[1]) ELSE 0

\* current_led_state = atoi(led_value), once the read of the attribute
\* (led_status_show) has filled led_value
AppAtoi ==
    /\ app_pc = "read_led"
    /\ show_buf # <<>>
    /\ current_led_state' = Atoi(SubSeq(show_buf, 1, 2))
    /\ app_pc' = "open_button"
    /\ UNCHANGED <<keep_running, sig_pending, led_fd, app_wrote>>
    /\ AppFrame

\* button_fd = open(GPIO_BUTTON_DEVICE, O_RDONLY); if (button_fd < 0) goto cleanup;
AppOpenButton ==
    /\ app_pc = "open_button"
    /\ \E ok \in BOOLEAN :
          app_pc' = IF ok THEN "loop" ELSE "cleanup"
    /\ UNCHANGED <<keep_running, sig_pending, current_led_state, led_fd,
                   app_wrote>>
    /\ AppFrame

\* while (keep_running)
AppTest ==
    /\ app_pc = "loop"
    /\ app_pc' = IF keep_running # 0 THEN "read" ELSE "cleanup"
    /\ UNCHANGED <<keep_running, sig_pending, current_led_state, led_fd,
                   app_wrote>>
    /\ AppFrame

\* the process is now inside read(button_fd, &event_flag, 1)
AppInRead ==
    /\ app_pc = "read"
    /\ rd_pc[AppReader] # "idle"
    /\ app_pc' = "in_read"
    /\ UNCHANGED <<keep_running, sig_pending, current_led_state, led_fd,
                   app_wrote>>
    /\ AppFrame

\* read() is back (a pending signal's handler runs first):
\* if (read(...) < 0) { if (errno == EINTR) break; ...; goto cleanup; }
AppReadReturn ==
    /\ app_pc = "in_read"
    /\ rd_pc[AppReader] = "idle"
    /\ keep_running' = AfterSysret
    /\ sig_pending' = FALSE
    /\ app_pc' = IF rd_ret[AppReader] < 0 THEN "cleanup" ELSE "toggle"
    /\ UNCHANGED <<current_led_state, led_fd, app_wrote>>
    /\ AppFrame

\* current_led_state = !current_led_state; snprintf(led_value, ...);
\* if (lseek(led_fd, 0, SEEK_SET) < 0) goto cleanup;
AppToggle ==
    /\ app_pc = "toggle"
    /\ current_led_state' = IF current_led_state = 0 THEN 1 ELSE 0
    /\ \E ok \in BOOLEAN :
          app_pc' = IF ok THEN "write" ELSE "cleanup"
    /\ UNCHANGED <<keep_running, sig_pending, led_fd, app_wrote>>
    /\ AppFrame

\* snprintf(led_value, sizeof(led_value), "%d", current_led_state), of which
\* write(led_fd, led_value, 1) sends the first byte
AppLedValue == {SubSeq(SprintfD(current_led_state), 1, 1)}

\* the process is now inside write(led_fd, led_value, 1)
AppInWrite ==
    /\ app_pc = "write"
    /\ st_pc[AppWriter] # "idle"
    /\ app_pc' = "in_write"
    /\ UNCHANGED <<keep_running, sig_pending, current_led_state, led_fd,
                   app_wrote>>
    /\ AppFrame

\* if (write(led_fd, led_value, 1) < 0) goto cleanup; and round the loop
AppWriteReturn ==
    /\ app_pc = "in_write"
    /\ st_pc[AppWriter] = "idle"
    /\ keep_running' = AfterSysret
    /\ sig_pending' = FALSE
    /\ IF st_ret[AppWriter] < 0
         THEN /\ app_pc' = "cleanup"
              /\ app_wrote' = app_wrote
         ELSE /\ app_pc' = "loop"
              /\ app_wrote' = current_led_state
    /\ UNCHANGED <<current_led_state, led_fd>>
    /\ AppFrame

\* cleanup: if (led_fd >= 0) { lseek; write(led_fd, "0", 1); close(led_fd); }
AppCleanup ==
    /\ app_pc = "cleanup"
    /\ app_pc' = IF led_fd THEN "final" ELSE "done"
    /\ UNCHANGED <<keep_running, sig_pending, current_led_state, led_fd,
                   app_wrote>>
    /\ AppFrame

AppFinalValue == {<<"0">>}

\* the process is now inside write(led_fd, "0", 1)
AppInFinal ==
    /\ app_pc = "final"
    /\ st_pc[AppWriter] # "idle"
    /\ app_pc' = "in_final"
    /\ UNCHANGED <<keep_running, sig_pending, current_led_state, led_fd,
                   app_wrote>>
    /\ AppFrame

\* the result of that write is not looked at; close(led_fd);
\* close(button_fd); return retval;
AppFinalReturn ==
    /\ app_pc = "in_final"
    /\ st_pc[AppWriter] = "idle"
    /\ app_wrote' = IF st_ret[AppWriter] < 0 THEN app_wrote ELSE 0
    /\ led_fd' = FALSE
    /\ app_pc' = "done"
    /\ keep_running' = AfterSysret
    /\ sig_pending' = FALSE
    /\ UNCHANGED current_led_state
    /\ AppFrame

\* main() in user mode
AppUser ==
    \/ AppOpenLed \/ AppAtoi \/ AppOpenButton \/ AppTest \/ AppInRead
    \/ AppReadReturn \/ AppToggle \/ AppInWrite \/ AppWriteReturn
    \/ AppCleanup \/ AppInFinal \/ AppFinalReturn

\* read(button_fd, ...): gpio_button_read on behalf of main().  The wait is
\* interrupted only by a signal that is pending for this process.
AppRead ==
    \/ app_pc = "read" /\ ReadCall(AppReader)
    \/ /\ app_pc = "in_read"
       /\ \/ ReadCheck(AppReader)
          \/ sig_pending /\ ReadInterrupted(AppReader)
          \/ ReadClear(AppReader)
          \/ ReadCopy(AppReader)

\* read(led_fd, ...) and the two write(led_fd, ...): led_status_show and
\* led_status_store on behalf of main()
AppLed ==
    \/ app_pc = "read_led" /\ show_buf = <<>> /\ Show
    \/ app_pc = "write" /\ StoreCall(AppWriter, AppLedValue)
    \/ app_pc = "final" /\ StoreCall(AppWriter, AppFinalValue)
    \/ /\ app_pc \in {"in_write", "in_final"}
       /\ \/ StoreCheck(AppWriter)
          \/ StoreAssign(AppWriter)
          \/ StoreLoad(AppWriter)
          \/ StoreDrive(AppWriter)

NextApp ==
    \/ ButtonEdge
    \/ Tick
    \/ Isr
    \/ TimerCallback
    \/ Signal
    \/ AppHandler
    \/ AppUser
    \/ AppRead
    \/ AppLed

\* the kernel's handlers run to their end, time passes, the process is
\* scheduled and its system calls make progress, a pending signal is
\* delivered.  Nothing obliges the button to move or a signal to be sent.
AppFairness ==
    /\ WF_vars(Isr)
    /\ WF_vars(Tick)
    /\ WF_vars(TimerCallback)
    /\ WF_vars(AppHandler)
    /\ WF_vars(AppUser)
    /\ WF_vars(AppRead)
    /\ WF_vars(AppLed)

AppSpec == InitAttached /\ [][NextApp]_vars /\ AppFairness

(***************************************************************************)
(* C27.  Once the LED attribute file is open, a SIGINT or SIGTERM          *)
(* delivered at any point of the event loop makes the application reach    *)
(* its cleanup and exit, with 0 the last value it wrote to the LED         *)
(* attribute, without any further button event.                            *)
(***************************************************************************)
Shutdown_C27 ==
    (led_fd /\ keep_running = 0) ~> (app_pc = "done" /\ app_wrote = 0)

=============================================================================
